---- MODULE Spec2Model ----
(***************************************************************************)
(* Model of flash_dropout/functional/utils.py: the block-dropout mask      *)
(* generators, the two increment-table builders and the thread-block       *)
(* swizzle.  Every function of the file is pure, so the state is one call  *)
(* frame: the arguments of the call (args), the position of the call (pc)  *)
(* and what the call produced (ret).                                       *)
(*                                                                         *)
(* Tensors are sequences (1-based, as TLA+ has them); the VALUES they hold *)
(* (column indices, row_indices, positions in table) are 0-based as in the *)
(* source, so position i of a tensor t is t[i + 1].                        *)
(***************************************************************************)
EXTENDS Integers, Sequences, FiniteSets

VARIABLES pc, args, ret

vars == <<pc, args, ret>>

(* ------------------------------ bounds --------------------------------- *)
MaxRows == 3
MaxCols == 3
MaxBlockK == 2
MaxNdim == 3
MaxDim == 3
MaxBlockSize == 2
PDen == 4
MaxGridM == 5
MaxGridN == 3
MaxGroupM == 3

NoRet == [raised |-> FALSE]

(* ------------------------- tensor primitives --------------------------- *)

\* ~mask (elementwise logical not of a 2D bool tensor)
LogicalNot(m) == [r \in 1..Len(m) |-> [c \in 1..Len(m[r]) |-> ~m[r][c]]]

\* torch.sum(m, dim=1) of a 2D bool tensor: the number of True cells per row
SumDim1(m) == [r \in 1..Len(m) |-> Cardinality({c \in 1..Len(m[r]) : m[r][c]})]

\* torch.cumsum(s, dim=0)
RECURSIVE CumSum(_)
CumSum(s) ==
  IF s = <<>> THEN <<>>
  ELSE LET h == CumSum(SubSeq(s, 1, Len(s) - 1))
       IN  Append(h, (IF h = <<>> THEN 0 ELSE h[Len(h)]) + s[Len(s)])

\* F.pad(s, (1, 0), value=0)
PadLeft0(s) == <<0>> \o s

\* the column indices of the True cells of one row from column c on, ascending
RECURSIVE NonzeroRow(_, _)
NonzeroRow(row, c) ==
  IF c > Len(row) THEN <<>>
  ELSE (IF row[c] THEN <<c - 1>> ELSE <<>>) \o NonzeroRow(row, c + 1)

\* the second tensor of torch.nonzero(m, as_tuple=True): the column index of
\* every True cell, cells taken in row-major order, from row r on
RECURSIVE NonzeroCols(_, _)
NonzeroCols(m, r) ==
  IF r > Len(m) THEN <<>>
  ELSE NonzeroRow(m[r], 1) \o NonzeroCols(m, r + 1)

\* torch.diff(x, prepend=p) of 1D tensors
Diff1D(x, p) ==
  LET y == p \o x IN [i \in 1..(Len(y) - 1) |-> y[i + 1] - y[i]]

(* ----------------------- mask_to_increment_table ----------------------- *)

\* row_widths = torch.sum(~mask, dim=1)
RowWidths(mask) == SumDim1(LogicalNot(mask))

RowIndices_inclusive(row_widths) == CumSum(row_widths)

\* row_indices = F.pad(torch.cumsum(row_widths[:-1], dim=0), (1, 0), value=0)
RowIndices(row_widths) ==
  PadLeft0(CumSum(SubSeq(row_widths, 1, Len(row_widths) - 1)))

\* offsets = col_indices * BLOCK_K
Offsets(mask, BLOCK_K) ==
  LET col_indices == NonzeroCols(LogicalNot(mask), 1)
  IN  [i \in 1..Len(col_indices) |-> col_indices[i] * BLOCK_K]

RowIndicesInRange_unfiltered(row_indices, n) == row_indices

RowIndicesInRange_short(row_indices, n) ==
  SelectSeq(row_indices, LAMBDA i : i < n - 1)

\* row_indices_in_range = row_indices[row_indices < len(table)]
RowIndicesInRange(row_indices, n) ==
  SelectSeq(row_indices, LAMBDA i : i < n)

SetRowStarts_skipped(table, offsets, idx) ==
  [raised |-> FALSE, value |-> table]

\* table[idx] = offsets[idx]: an index outside the tensor raises IndexError;
\* equal indices write equal values, so the order of the writes is immaterial
SetRowStarts(table, offsets, idx) ==
  IF \E j \in 1..Len(idx) : idx[j] < 0 \/ idx[j] >= Len(table)
  THEN [raised |-> TRUE, value |-> table]
  ELSE [raised |-> FALSE,
        value  |-> [i \in 1..Len(table) |->
                      IF \E j \in 1..Len(idx) : idx[j] = i - 1
                      THEN offsets[i] ELSE table[i]]]

mask_to_increment_table(mask, BLOCK_K) ==
  LET row_widths  == RowWidths(mask)
      row_indices == RowIndices(row_widths)
      offsets     == Offsets(mask, BLOCK_K)
      table       == Diff1D(offsets, <<0>>)
      in_range    == RowIndicesInRange(row_indices, Len(table))
      put         == SetRowStarts(table, offsets, in_range)
  IN  [raised      |-> put.raised,
       table       |-> put.value,
       row_indices |-> row_indices,
       row_widths  |-> row_widths,
       touched     |-> {in_range[j] : j \in 1..Len(in_range)}]

\* every 2D bool tensor of at most MaxRows x MaxCols cells
Masks ==
  UNION {[1..R -> [1..C -> BOOLEAN]] : R \in 0..MaxRows, C \in 0..MaxCols}

InitTable ==
  /\ pc = "call"
  /\ args \in [mask : Masks, BLOCK_K : 1..MaxBlockK]
  /\ ret = NoRet

CallMaskToIncrementTable ==
  /\ pc = "call"
  /\ ret' = mask_to_increment_table(args.mask, args.BLOCK_K)
  /\ pc' = "done"
  /\ UNCHANGED args

NextTable == CallMaskToIncrementTable

SpecTable == InitTable /\ [][NextTable]_vars

(* --------------- claims about mask_to_increment_table ------------------ *)

\* the 0-based columns of the False (kept) cells of one mask row
KeptCols(row) == {c - 1 : c \in {d \in 1..Len(row) : ~row[d]}}

FullyDropped(row) == \A c \in 1..Len(row) : row[c]

RECURSIVE SeqSum(_)
SeqSum(s) == IF s = <<>> THEN 0 ELSE s[1] + SeqSum(Tail(s))

\* what a consumer reads: n entries from 0-based position start, the first
\* taken as absolute, each later one added to the running sum
RECURSIVE Walk(_, _, _)
Walk(t, start, n) ==
  IF n = 0 THEN <<>>
  ELSE LET w == Walk(t, start, n - 1)
       IN  Append(w, (IF n = 1 THEN 0 ELSE w[n - 1]) + t[start + n])

\* w lists the members of S in strictly ascending order
IsAscendingListOf(w, S) ==
  /\ Len(w) = Cardinality(S)
  /\ {w[j] : j \in 1..Len(w)} = S
  /\ \A j \in 1..(Len(w) - 1) : w[j] < w[j + 1]

TrailingDropped(mask, r) == \A q \in r..Len(mask) : FullyDropped(mask[q])

\* C6: when the last row (or the last several rows, or every row) is fully
\* dropped, the correction step touches only positions in [0, len(table)),
\* len(table) is still the number of False cells, the dropped rows have
\* row_width 0 and each trailing dropped row has row_index = len(table).
C6_DroppedTail ==
  (pc = "done" /\ Len(args.mask) >= 1
     /\ FullyDropped(args.mask[Len(args.mask)])) =>
    LET R == Len(args.mask) IN
    /\ ~ret.raised
    /\ ret.touched \subseteq 0..(Len(ret.table) - 1)
    /\ Len(ret.table) =
         SeqSum([r \in 1..R |-> Cardinality(KeptCols(args.mask[r]))])
    /\ \A r \in 1..R : FullyDropped(args.mask[r]) => ret.row_widths[r] = 0
    /\ \A r \in 1..R :
         TrailingDropped(args.mask, r) => ret.row_indices[r] = Len(ret.table)

\* the last two rows are fully dropped and the first is not
C6_Witness ==
  /\ pc = "done"
  /\ Len(args.mask) = 3
  /\ ~FullyDropped(args.mask[1])
  /\ FullyDropped(args.mask[2])
  /\ FullyDropped(args.mask[3])
  /\ Len(args.mask[3]) >= 2
  /\ ret.row_indices[2] = Len(ret.table)
  /\ ret.row_indices[3] = Len(ret.table)

\* the smallest member of a non-empty set of integers
SetMin(S) == CHOOSE x \in S : \A y \in S : x <= y

\* C9: the in-range filter skips exactly the inert rows. row_index[r] >=
\* len(table) iff row r and every later row are fully dropped; the filter
\* keeps the row_index of every other row; a row with row_width > 0 has its
\* first table entry set to its own first absolute offset; a fully dropped row
\* with a non-empty row after it shares the row_index of the next non-empty
\* row, so the value written there is that row's.
C9_FilterExact ==
  pc = "done" =>
    LET R == Len(args.mask)
        n == Len(ret.table)
    IN
    /\ ~ret.raised
    /\ \A r \in 1..R :
         (ret.row_indices[r] >= n) <=> TrailingDropped(args.mask, r)
    /\ ret.touched =
         {ret.row_indices[r] : r \in {q \in 1..R : ~TrailingDropped(args.mask, q)}}
    /\ \A r \in 1..R :
         ret.row_widths[r] > 0 =>
           /\ ret.row_indices[r] < n
           /\ ret.row_indices[r] \in ret.touched
           /\ ret.table[ret.row_indices[r] + 1] =
                SetMin(KeptCols(args.mask[r])) * args.BLOCK_K
    /\ \A r \in 1..R : \A q \in (r + 1)..R :
         (/\ \A m \in r..(q - 1) : FullyDropped(args.mask[m])
          /\ ~FullyDropped(args.mask[q])) =>
           /\ ret.row_indices[r] = ret.row_indices[q]
           /\ ret.table[ret.row_indices[r] + 1] =
                SetMin(KeptCols(args.mask[q])) * args.BLOCK_K

\* a dropped first row, then a row whose first kept block is not column 0,
\* then a dropped last row
C9_Witness ==
  /\ pc = "done"
  /\ Len(args.mask) = 3
  /\ FullyDropped(args.mask[1])
  /\ ret.row_widths[2] > 0
  /\ ret.table[ret.row_indices[2] + 1] > 0
  /\ FullyDropped(args.mask[3])
  /\ ret.row_indices[1] \in ret.touched
  /\ ~(ret.row_indices[3] \in ret.touched)

(* ------------------ structured_mask_to_increment_table ----------------- *)

\* torch.diff(input, prepend=prepend) of 2D tensors, along the last dimension.
\* torch.diff does not broadcast: prepend must have the shape of input in
\* every dimension but the last, or the call raises RuntimeError.
Diff2D(input, prepend) ==
  IF Len(prepend) # Len(input)
  THEN [raised |-> TRUE, value |-> <<>>]
  ELSE [raised |-> FALSE,
        value  |-> [r \in 1..Len(input) |-> Diff1D(input[r], prepend[r])]]

\* return torch.diff(mask, prepend=torch.tensor([[0]])) * BLOCK_K
structured_mask_to_increment_table(mask, BLOCK_K) ==
  LET d == Diff2D(mask, << <<0>> >>)
  IN  IF d.raised THEN d
      ELSE [raised |-> FALSE,
            value  |-> [r \in 1..Len(d.value) |->
                          [j \in 1..Len(d.value[r]) |-> d.value[r][j] * BLOCK_K]]]

\* the strictly ascending sequences of k column-block indices below nc
AscendingRows(nc, k) ==
  {s \in [1..k -> 0..(nc - 1)] : \A j \in 1..(k - 1) : s[j] < s[j + 1]}

\* every R x k grid of kept indices that structured_dropout_mask can return
Selections ==
  UNION {[1..R -> AscendingRows(MaxCols, k)] : R \in 1..MaxRows, k \in 0..MaxCols}

InitStructured ==
  /\ pc = "call"
  /\ args \in [mask : Selections, BLOCK_K : 1..MaxBlockK]
  /\ ret = NoRet

CallStructuredMaskToIncrementTable ==
  /\ pc = "call"
  /\ ret' = structured_mask_to_increment_table(args.mask, args.BLOCK_K)
  /\ pc' = "done"
  /\ UNCHANGED args

NextStructured == CallStructuredMaskToIncrementTable

SpecStructured == InitStructured /\ [][NextStructured]_vars

\* C4: for every R x k grid of ascending kept indices (any R >= 1) and every
\* BLOCK_K >= 1 the result has shape R x k, entry [r][0] is
\* kept_index[r][0] * BLOCK_K, entry [r][j > 0] is the index difference times
\* BLOCK_K, so the running sum of row r up to j is kept_index[r][j] * BLOCK_K.
C4_StructuredTable ==
  pc = "done" =>
    /\ ~ret.raised
    /\ Len(ret.value) = Len(args.mask)
    /\ \A r \in 1..Len(args.mask) :
         LET k == Len(args.mask[r]) IN
         /\ Len(ret.value[r]) = k
         /\ \A j \in 1..k :
              ret.value[r][j] =
                (args.mask[r][j] - (IF j = 1 THEN 0 ELSE args.mask[r][j - 1]))
                  * args.BLOCK_K
         /\ Walk(ret.value[r], 0, k) =
              [j \in 1..k |-> args.mask[r][j] * args.BLOCK_K]

(* ---------------- the two builders on uniform-width masks -------------- *)

\* row r of the grid of ascending kept column indices of a mask
KeptGrid(mask) == [r \in 1..Len(mask) |-> NonzeroRow(LogicalNot(mask)[r], 1)]

\* the masks in which every row keeps the same number k >= 1 of blocks
UniformMasks ==
  {m \in Masks :
     /\ Len(m) >= 1
     /\ \E k \in 1..MaxCols :
          \A r \in 1..Len(m) : Cardinality(KeptCols(m[r])) = k}

InitBoth ==
  /\ pc = "call"
  /\ args \in [mask : UniformMasks, BLOCK_K : 1..MaxBlockK]
  /\ ret = NoRet

CallBothBuilders ==
  /\ pc = "call"
  /\ ret' = [raised |-> FALSE,
             flat   |-> mask_to_increment_table(args.mask, args.BLOCK_K),
             dense  |-> structured_mask_to_increment_table(
                          KeptGrid(args.mask), args.BLOCK_K)]
  /\ pc' = "done"
  /\ UNCHANGED args

NextBoth == CallBothBuilders

SpecBoth == InitBoth /\ [][NextBoth]_vars

\* C10: on a mask whose rows each keep exactly k >= 1 blocks,
\* mask_to_increment_table returns row_width[r] = k, row_index[r] = r * k and
\* a flat table that, read as R rows of k entries, equals
\* structured_mask_to_increment_table of the grid of kept column indices.
C10_BuildersAgree ==
  pc = "done" =>
    LET R == Len(args.mask)
        k == Cardinality(KeptCols(args.mask[1]))
    IN
    /\ ~ret.flat.raised
    /\ \A r \in 1..R : ret.flat.row_widths[r] = k
    /\ \A r \in 1..R : ret.flat.row_indices[r] = (r - 1) * k
    /\ Len(ret.flat.table) = R * k
    /\ ~ret.dense.raised
    /\ ret.dense.value =
         [r \in 1..R |-> [j \in 1..k |-> ret.flat.table[(r - 1) * k + j]]]

(* ------------------------ structured_dropout_mask ---------------------- *)

\* ceil(a / b) for positive integers
Ceil(a, b) == (a + b - 1) \div b

\* Python's round() of num / den: to the nearest integer, a tie to the even one
Round(num, den) ==
  LET q == num \div den
      r == num % den
  IN  IF 2 * r < den THEN q
      ELSE IF 2 * r > den THEN q + 1
      ELSE IF q % 2 = 0 THEN q ELSE q + 1

\* s with x put before the first element greater than x
RECURSIVE Insert(_, _)
Insert(s, x) ==
  IF s = <<>> THEN <<x>>
  ELSE IF x <= s[1] THEN <<x>> \o s
  ELSE <<s[1]>> \o Insert(Tail(s), x)

SortRow_unsorted(s) == s

\* one row of torch.sort(t, dim=1): the values of s in ascending order
RECURSIVE SortRow(_)
SortRow(s) == IF s = <<>> THEN <<>> ELSE Insert(SortRow(Tail(s)), s[1])

\* num_blocks = (ceil(x.shape[0] / block_size[0]), ceil(x.shape[1] / block_size[1]))
NumBlocks(shape, block_size) ==
  <<Ceil(shape[1], block_size[1]), Ceil(shape[2], block_size[2])>>

\* the orders of 0..n-1
Permutations(n) ==
  {s \in [1..n -> 0..(n - 1)] : \A i, j \in 1..n : s[i] = s[j] => i = j}

\* what torch.argsort(torch.rand(*num_blocks), dim=1) can be: in every row
\* some order of the column indices
ArgsortRand(num_blocks) == [1..num_blocks[1] -> Permutations(num_blocks[2])]

structured_dropout_mask_unchecked(shape, block_size, p, draw) ==
  IF Len(shape) < 2
  THEN [raised |-> TRUE, value |-> <<>>]
  ELSE LET num_blocks == NumBlocks(shape, block_size)
           k == Round(num_blocks[2] * (PDen - p), PDen)
       IN  [raised |-> FALSE,
            value  |-> [r \in 1..Len(draw) |-> SortRow(SubSeq(draw[r], 1, k))]]

\* p is the drop probability p / PDen (PDen = 4: every such p and every
\* product num_blocks[1] * (1 - p) is exact in binary floating point); draw is
\* the outcome of the argsort of the random tensor, if one is drawn. A failed
\* assert raises AssertionError.
structured_dropout_mask(shape, block_size, p, draw) ==
  IF Len(shape) # 2
  THEN [raised |-> TRUE, value |-> <<>>]
  ELSE LET num_blocks == NumBlocks(shape, block_size)
           num_blocks_not_masked == Round(num_blocks[2] * (PDen - p), PDen)
       IN  [raised |-> FALSE,
            value  |-> [r \in 1..Len(draw) |->
                          SortRow(SubSeq(draw[r], 1, num_blocks_not_masked))]]

Shapes == UNION {[1..d -> 1..MaxDim] : d \in 1..MaxNdim}

InitSelect ==
  /\ pc = "call"
  /\ args \in [shape : Shapes,
               block_size : (1..MaxBlockSize) \X (1..MaxBlockSize),
               p : 0..PDen]
  /\ ret = NoRet

CallStructuredDropoutMask ==
  /\ pc = "call"
  /\ \E draw \in (IF Len(args.shape) = 2
                  THEN ArgsortRand(NumBlocks(args.shape, args.block_size))
                  ELSE {<<>>}) :
       ret' = structured_dropout_mask(args.shape, args.block_size, args.p, draw)
  /\ pc' = "done"
  /\ UNCHANGED args

NextSelect == CallStructuredDropoutMask

SpecSelect == InitSelect /\ [][NextSelect]_vars

C7_RejectsNon2D ==
  (pc = "done" /\ Len(args.shape) # 2) => (ret.raised /\ ret.value = <<>>)

\* a batched (3D) input has been rejected
C7_Witness ==
  /\ pc = "done"
  /\ Len(args.shape) = 3
  /\ ret.raised

(* -------------------------- threadblock_swizzle ------------------------ *)

Min(a, b) == IF a <= b THEN a ELSE b

threadblock_swizzle_fullgroup(pid, grid_m, grid_n, GROUP_M) ==
  LET width == GROUP_M * grid_n
      group_id == pid \div width
  IN  <<group_id * GROUP_M + (pid % GROUP_M), (pid % width) \div GROUP_M>>

\* <<pid_m, pid_n>>
threadblock_swizzle(pid, grid_m, grid_n, GROUP_M) ==
  LET width == GROUP_M * grid_n
      group_id == pid \div width
      group_size == Min(grid_m - group_id * GROUP_M, GROUP_M)
      pid_m == group_id * GROUP_M + (pid % group_size)
      pid_n == (pid % width) \div group_size
  IN  <<pid_m, pid_n>>

\* a launch of grid_m * grid_n work items; tiles[pid + 1] is the tile of pid
InitSwizzle ==
  /\ pc = "launch"
  /\ args \in [grid_m : 1..MaxGridM, grid_n : 1..MaxGridN, GROUP_M : 1..MaxGroupM]
  /\ ret = [raised |-> FALSE, tiles |-> <<>>]

\* the work item with the next pid computes its tile
WorkItem ==
  /\ pc = "launch"
  /\ LET pid == Len(ret.tiles) IN
     /\ pid < args.grid_m * args.grid_n
     /\ ret' = [ret EXCEPT !.tiles =
                  Append(@, threadblock_swizzle(pid, args.grid_m, args.grid_n,
                                                args.GROUP_M))]
     /\ pc' = IF pid + 1 = args.grid_m * args.grid_n THEN "done" ELSE "launch"
  /\ UNCHANGED args

NextSwizzle == WorkItem

SpecSwizzle == InitSwizzle /\ [][NextSwizzle]_vars

\* C3: the swizzle is a bijection. Every pid in [0, grid_m * grid_n) maps to a
\* pair with 0 <= pid_m < grid_m and 0 <= pid_n < grid_n, and every pair of
\* the grid is produced by exactly one pid, also when GROUP_M does not divide
\* grid_m or exceeds it.
C3_Bijection ==
  /\ \A i \in 1..Len(ret.tiles) :
       /\ ret.tiles[i][1] \in 0..(args.grid_m - 1)
       /\ ret.tiles[i][2] \in 0..(args.grid_n - 1)
  /\ \A i, j \in 1..Len(ret.tiles) : ret.tiles[i] = ret.tiles[j] => i = j
  /\ pc = "done" =>
       /\ Len(ret.tiles) = args.grid_m * args.grid_n
       /\ \A t \in (0..(args.grid_m - 1)) \X (0..(args.grid_n - 1)) :
            Cardinality({i \in 1..Len(ret.tiles) : ret.tiles[i] = t}) = 1

\* a finished launch whose last band is partial and has several rows
C3_Witness ==
  /\ pc = "done"
  /\ args.grid_m > args.GROUP_M
  /\ args.grid_m % args.GROUP_M > 1
  /\ args.grid_n > 1
  /\ Len(ret.tiles) = args.grid_m * args.grid_n

\* C8: within each band g (rows g * GROUP_M .. min(grid_m, (g + 1) * GROUP_M)
\* - 1) tiles are visited column-major: the first pid of the band maps to
\* (g * GROUP_M, 0), and from one pid of the band to the next either pid_n
\* stays and pid_m grows by 1, or pid_m goes from the last row of the band
\* back to its first row and pid_n grows by 1.
C8_ColumnMajor ==
  LET width == args.GROUP_M * args.grid_n
      first(g) == g * args.GROUP_M
      last(g) == Min(args.grid_m, (g + 1) * args.GROUP_M) - 1
  IN
  /\ \A p \in 0..(Len(ret.tiles) - 1) :
       p % width = 0 => ret.tiles[p + 1] = <<first(p \div width), 0>>
  /\ \A p \in 0..(Len(ret.tiles) - 2) :
       (p \div width = (p + 1) \div width) =>
         LET g == p \div width
             a == ret.tiles[p + 1]
             b == ret.tiles[p + 2]
         IN  \/ (b[2] = a[2] /\ b[1] = a[1] + 1)
             \/ (a[1] = last(g) /\ b[1] = first(g) /\ b[2] = a[2] + 1)

====
